---- MODULE Spec2Model ----
(***************************************************************************)
(* Position/order reconciliation engine of the hybrid trend+grid bot       *)
(* (main.py, risk.py, storage.py, okx_client.py).                          *)
(*                                                                         *)
(* Units: prices and the balance are whole quote units, sizes are whole    *)
(* lots.  Python None is NoneVal; an absent dict key of a grid leg         *)
(* (filledSz, fillPx, ocoAlgoId) is NoneVal too.                           *)
(*                                                                         *)
(* check_symbol runs on the event loop: what lies between two awaits that  *)
(* suspend (say, send_plot, reply_text) is one step.  One periodic task    *)
(* runs at a time; /close handlers and the exchange act between the steps. *)
(*                                                                         *)
(* Seven specifications: Spec is the engine working one symbol; SpecRisk   *)
(* is position_size_spot called on its own; SpecSched is the scheduler,    *)
(* the periodic tasks over the watchlist and /pause and /resume, with      *)
(* check_symbol reduced to whether it runs the symbol and how it ends;     *)
(* SpecRequest is one call of OkxClient._request with its retries;         *)
(* SpecSignal is generate_signal (strategy.py) called on its own;          *)
(* SpecWatch is the periodic tasks with /add and /rm changing the          *)
(* watchlist under them; SpecOverlap is two periodic tasks in check_symbol *)
(* of the same symbol, reduced to the placing and the ending of a grid.    *)
(***************************************************************************)
EXTENDS Integers, Sequences, FiniteSets, TLC

VARIABLES
    trades_key,      \* 'trades' in state            (storage.py DEFAULT_STATE)
    trades,          \* state['trades']
    open_positions,  \* state['open_positions']
    alerts,          \* state['alerts']
    config,          \* state['config']
    instr_meta,      \* _INSTR_META
    instr_fetches,   \* how many times get_instr_meta has called _fetch_instruments
    orders,          \* the exchange's spot orders, index = ordId
    algos,           \* how many OCO algo orders the exchange has accepted (the last algoId)
    equity,          \* the exchange's available quote balance
    pc,              \* position of the periodic task inside check_symbol
    sym,             \* check_symbol's sym
    df,              \* check_symbol's df: close and atr of the last indicator row
    sig,             \* check_symbol's sig, from where step 4 reads it
    last,            \* check_symbol's last, from where step 2 reads it
    tr_local,        \* check_symbol's tr (result of close_trade_by_symbol)
    last_row,        \* handle_dip_breakout's last_row, while suspended at line 518
    meta_hits,       \* get_instr_meta calls of this check_symbol run that found the entry
    dip_entry,       \* whether this check_symbol run has opened a position by the dip path
    cmd,             \* position of a /close handler
    logged,          \* what check_symbol's except clause logged last
    oco_log,         \* place_algo_oco requests of the latest fill detection
    query_log,       \* ordIds passed to client.order by the latest fill detection
    disk,            \* STATE_FILE: whether it exists and the state it holds
    call,            \* a call of position_size_spot: its arguments and its result
    request,         \* a call of OkxClient._request: the attempts made and how it ended
    gen,             \* a call of generate_signal: its arguments and its result
    RUN_ENABLED,     \* the flag /pause and /resume set
    watchlist,       \* the list WATCHLIST, which /add and /rm change in place
    tasks            \* the periodic tasks the scheduler has created

engine_vars == <<trades_key, trades, open_positions, alerts, config, instr_meta,
                 instr_fetches, orders, algos, equity, pc, sym, df, sig, last,
                 tr_local, last_row, meta_hits, dip_entry, cmd, logged, oco_log,
                 query_log, disk>>

risk_vars == <<call>>
sched_vars == <<RUN_ENABLED, watchlist, tasks>>

\* what the engine's steps leave alone
client_vars == <<request>>
strategy_vars == <<gen>>
other_vars == <<risk_vars, sched_vars, client_vars, strategy_vars>>

vars == <<engine_vars, other_vars>>

state_vars == <<trades_key, trades, open_positions, alerts, config>>
exch_vars == <<orders, algos, equity>>
tick_locals == <<sym, df, sig, last, tr_local, last_row, meta_hits, dip_entry>>
cache_vars == <<instr_meta, instr_fetches>>

\* ---- bounds of the model ----
MaxOrders == 2
OverlapOrders == 4
MaxTrades == 1
GridLevels == 2
MaxTasks == 2

\* ---- values ----
NoneVal == 0 - 1
Symbols == {"ETH-USDT"}
NoSym == "-"
Equities == {1000, 10000}
Closes == {100, 125}
Atrs == {10, 40}
Lasts == {60}
Lows == {70}
Mids == {100}
DipLevels == {98, 105}
BreakoutLevels == {90}
TickSizes == {1, 5}
ExitPrices == {60}

\* ---- program constants ----
MinPositionUsd == 20
RiskPerTrade == [num |-> 1, den |-> 100]

Max(a, b) == IF a >= b THEN a ELSE b
Min(a, b) == IF a <= b THEN a ELSE b

\* A distance taken as the signed difference
SignedDistance(a) == a

Abs(a) == IF a >= 0 THEN a ELSE 0 - a

\* ---- main.py: precision helpers ----
round_to_tick(px, tick) ==
    IF tick <= 0 THEN px ELSE (px \div tick) * tick

\* sz is the rational [num, den] returned by position_size_spot
round_size(sz, lot) ==
    IF lot <= 0 THEN sz ELSE ((sz.num \div sz.den) \div lot) * lot

\* ---- risk.py ----
position_size_spot(equity_usd, entry, stop, risk_per_trade) ==
    LET dist == Abs(entry - stop)
    IN  IF dist <= 0 THEN [num |-> 0, den |-> 1]
        ELSE LET risk_num == Max(equity_usd * risk_per_trade.num, 0)
             IN  [num |-> Max(0, risk_num), den |-> risk_per_trade.den * dist]

atr_trailing_stop(ind, atr_mult10, side) ==
    IF side = "long" THEN ind.close - (atr_mult10 * ind.atr) \div 10
    ELSE ind.close + (atr_mult10 * ind.atr) \div 10

\* A trail that follows the newest ATR value
newest_trailing_stop(current_trail, new_trail, side) == new_trail

update_trailing_stop(current_trail, new_trail, side) ==
    IF new_trail = NoneVal THEN current_trail
    ELSE IF current_trail = NoneVal THEN new_trail
    ELSE IF side = "long" THEN Max(current_trail, new_trail)
    ELSE Min(current_trail, new_trail)

\* Python None where a signal is expected
NoSig == [mode |-> "none", noop |-> TRUE]

\* ---- strategy.py: what generate_signal returns for the frame ----
\* A frame d is the indicator frame seen through what the functions read of
\* it: the number of its bars and, of its last row, close, atr, adx, ema_slow,
\* bb_width (in thousandths of the close), bb_mid, the 20-bar swing low and
\* whether trend_signal's alignment and trigger conditions (lines 70-76) hold.
\* A column whose window the frame does not fill is NaN; every comparison
\* with NaN is false.
NaN == 0 - 999
FGe(a, b) == a # NaN /\ b # NaN /\ a >= b
FGt(a, b) == a # NaN /\ b # NaN /\ a > b
FLe(a, b) == a # NaN /\ b # NaN /\ a <= b
FLt(a, b) == a # NaN /\ b # NaN /\ a < b

\* strategy.py lines 13, 14, 16, 18, 21: adx_trend, bb_width_max (0.06, in
\* thousandths), ema_slow, macd_slow, atr_len; line 66: the margin; line 99:
\* the least step, 0.0000001, which stands as the least price difference of
\* the model
AdxTrend == 22
BbWidthMax == 60
EmaSlow == 50
MacdSlow == 26
AtrLen == 14
HistoryMargin == 5
Epsilon == 1

\* okx_client.py line 132 and main.py line 571: the bars asked for
CandleLimit == 300

\* line 66
MinHistory == Max(Max(EmaSlow, AtrLen), MacdSlow) + HistoryMargin

\* main.py line 56 with the default MODE
strat_cfg == [mode |-> "auto"]

\* lines 50-62
detect_regime(d, cfg) ==
    IF d.bars = 0 THEN "trend"
    ELSE IF cfg.mode \in {"trend", "grid"} THEN cfg.mode
    ELSE IF FGe(d.adx, AdxTrend) /\ FGt(d.close, d.ema_slow) THEN "trend"
    ELSE IF FLe(d.bb_width, BbWidthMax) /\ FLt(d.adx, AdxTrend) THEN "grid"
    ELSE "trend"

\* lines 65-90
trend_signal(d) ==
    IF d.bars < MinHistory THEN NoSig
    ELSE IF d.trigger
    THEN [mode |-> "trend", noop |-> FALSE, side |-> "long", entry |-> d.close,
          stop |-> Min(d.low, d.close - 2 * d.atr)]
    ELSE NoSig

\* A step of half the ATR with no least value
grid_step_unfloored(atr) == atr \div 2

\* line 99: max(atr * grid_step_atr, 0.0000001), grid_step_atr being 0.5
grid_step(atr) == Max(atr \div 2, Epsilon)

\* lines 93-111, grid_tp_mult being 2.0
grid_plan(d) ==
    IF d.bars = 0 THEN NoSig
    ELSE LET step == grid_step(d.atr)
         IN  [mode |-> "grid", noop |-> FALSE, step |-> step, mid |-> d.bb_mid,
              levels |-> [i \in 1..GridLevels |->
                             [buy |-> d.bb_mid - i * step,
                              sell |-> (d.bb_mid - i * step) + 2 * step]]]

\* lines 114-122
generate_signal(d, cfg) ==
    IF detect_regime(d, cfg) = "trend"
    THEN IF trend_signal(d).mode = "none"
         THEN [mode |-> "trend", noop |-> TRUE]
         ELSE trend_signal(d)
    ELSE IF grid_plan(d).mode = "none"
         THEN [mode |-> "grid", noop |-> TRUE]
         ELSE grid_plan(d)

\* ---- records ----
NoPos == [mode |-> "none"]
NoMeta == [tickSize |-> 0, lotSz |-> 0]
NoDf == [close |-> 0, atr |-> 0]
NoTrade == [id |-> 0]
NoRow == [adx |-> 0, ema_fast |-> 0, ema_slow |-> 0]
CmdIdle == [pc |-> "idle", sym |-> NoSym]

\* The frame is fetched once, at line 571.  The model draws close and atr when
\* step 2 first reads the frame, whether the momentum columns confirm where
\* line 502 reads them, and the columns only generate_signal reads where line
\* 599 first reads sig.  The wide ATR only comes with the low close.
Frames == {d \in [close : Closes, atr : Atrs] : d.atr = 40 => d.close = 100}

\* trend_signal is only consulted in the trend regime
SignalColumns ==
    {x \in [low : Lows, bb_mid : Mids, regime : {"trend", "grid"}, trigger : BOOLEAN] :
        x.regime = "grid" => ~x.trigger}

Row(d, x) ==
    [bars |-> CandleLimit, close |-> d.close, atr |-> d.atr, low |-> x.low,
     bb_mid |-> x.bb_mid, ema_slow |-> d.close - 1, bb_width |-> BbWidthMax,
     adx |-> IF x.regime = "trend" THEN AdxTrend ELSE AdxTrend - 1,
     trigger |-> x.trigger]

\* "not state['open_positions'].get(sym)"
IsFlat(pos) == pos.mode = "none"

\* An engine that enters whatever it holds
EntryAlways(pos) == TRUE

\* lines 470, 498 and 598: the symbol is flat, an entry may be opened
EntryAllowed(pos) == IsFlat(pos)

\* orders_pending(instId): the ordIds the exchange lists as pending
PendingIds(ords, s) ==
    {i \in 1..Len(ords) : ords[i].instId = s /\ ords[i].state = "live"}

\* The periodic task is suspended in an await that yields to the event loop
AwaitPcs == {"dipSay", "brkSay", "stopSay", "entrySay", "gridSay", "cycleSay"}

\* ---- storage.py ----
\* The state dict: 'trades' is a key of it or not.  An absent symbol of
\* open_positions reads as NoPos, an absent symbol of alerts as no levels, an
\* absent key of config as FALSE (the None of .get is falsy).
StateDict(tk, trs, positions, al, cf) ==
    IF tk
    THEN [open_positions |-> positions, trades |-> trs, alerts |-> al, config |-> cf]
    ELSE [open_positions |-> positions, alerts |-> al, config |-> cf]

\* lines 9-13
DEFAULT_STATE ==
    [open_positions |-> [s \in Symbols |-> NoPos],
     alerts |-> [s \in Symbols |-> [dip |-> {}, breakout |-> {}]],
     config |-> [auto_dip |-> FALSE, auto_breakout |-> FALSE]]

NoFile == [exists |-> FALSE]

\* lines 18-21
load_state(file) == IF file.exists THEN file.state ELSE DEFAULT_STATE

\* lines 26-27: what STATE_FILE holds once save_state(st) has written it
save_state(st) == [exists |-> TRUE, state |-> st]

\* the module-level state of main.py
Memory == StateDict(trades_key, trades, open_positions, alerts, config)

\* The files the bot may find when it starts: none, or the file an earlier
\* run left after /alert, /auto_dip and /auto_breakout (lines 321-324, 331-332
\* and 339-340) with every position closed.  An earlier run that itself
\* started without a file wrote no 'trades' key.
StateFiles ==
    {NoFile} \cup
    {save_state(StateDict(tk, <<>>, [s \in Symbols |-> NoPos],
                          [s \in Symbols |-> [dip |-> DipLevels,
                                              breakout |-> BreakoutLevels]],
                          cf)) :
        tk \in BOOLEAN, cf \in [auto_dip : BOOLEAN, auto_breakout : BOOLEAN]}

\* line 58 of main.py: state = load_state()
EngineInit ==
    /\ disk \in StateFiles
    /\ LET st == load_state(disk)
       IN  /\ trades_key = ("trades" \in DOMAIN st)
           /\ trades = IF "trades" \in DOMAIN st THEN st.trades ELSE <<>>
           /\ open_positions = st.open_positions
           /\ alerts = st.alerts
           /\ config = st.config
    /\ instr_meta = [s \in Symbols |-> NoMeta]
    /\ instr_fetches = [s \in Symbols |-> 0]
    /\ last_row = NoRow
    /\ meta_hits = 0
    /\ dip_entry = FALSE
    /\ orders = <<>>
    /\ algos = 0
    /\ equity \in Equities
    /\ pc = "idle"
    /\ sym = NoSym
    /\ df = NoDf
    /\ sig = NoSig
    /\ last = NoneVal
    /\ tr_local = NoTrade
    /\ cmd = CmdIdle
    /\ logged = "none"
    /\ oco_log = <<>>
    /\ query_log = {}

\* no call of position_size_spot is under study
NoCall == [pc |-> "none"]

\* a slot for a periodic task that holds none
NoTask == [pc |-> "none"]

\* line 48: the default watchlist and a third symbol, as the WATCHLIST
\* variable of the environment or /add (lines 262-267) may give
WATCHLIST == <<"ETH-USDT", "BTC-USDT", "SOL-USDT">>

\* lines 48 and 60, and no periodic task but the one the engine's pc stands for
SchedAtRest ==
    /\ RUN_ENABLED = TRUE
    /\ watchlist = WATCHLIST
    /\ tasks = [t \in 1..MaxTasks |-> NoTask]

Init ==
    /\ EngineInit
    /\ call = NoCall
    /\ request = NoCall
    /\ gen = NoCall
    /\ SchedAtRest

\* What the bot can still learn of the exchange's orders.  It asks for an
\* order only by the buyOrdId of a leg of an open position (lines 426-432) and
\* reads orders_pending only for such ids (lines 428 and 620-621).  Of an order
\* that no leg names the model keeps the ordId, the instrument and whether it
\* is still resting; of one that is also no longer resting only the ordId.
Forgotten == [instId |-> NoSym, px |-> 0, sz |-> 0, state |-> "gone",
              accFillSz |-> 0, avgPx |-> 0]

LegsOf(pos) == IF pos.mode = "grid" THEN pos.grid_orders ELSE <<>>

Named(positions, o) ==
    \E s \in Symbols : \E i \in DOMAIN LegsOf(positions[s]) :
       LegsOf(positions[s])[i].buyOrdId = o

Observable(ords, positions) ==
    [o \in DOMAIN ords |->
        IF Named(positions, o) THEN ords[o]
        ELSE IF ords[o].state = "live"
        THEN [Forgotten EXCEPT !.instId = ords[o].instId, !.state = "live"]
        ELSE Forgotten]

\* ---- the exchange ----
\* The executed sizes the exchange may report for a filled order
FillSizes(od) == IF od.sz = 0 THEN {0} ELSE {od.sz, od.sz - 1} \ {0}

\* A resting buy executes: the exchange reports state 'filled' and accFillSz
ExchFill(o) ==
    /\ orders[o].state = "live"
    /\ \E f \in FillSizes(orders[o]) :
          orders' = Observable([orders EXCEPT ![o].state = "filled", ![o].accFillSz = f,
                                               ![o].avgPx = orders[o].px],
                               open_positions)
    /\ UNCHANGED <<state_vars, cache_vars, algos, equity, pc, tick_locals, cmd,
                   logged, oco_log, query_log, disk, other_vars>>

\* A resting buy is canceled outside the bot, possibly after a partial fill
ExchCancel(o) ==
    /\ orders[o].state = "live"
    /\ \E f \in {0, 1} :
          /\ f < orders[o].sz \/ f = 0
          /\ orders' = Observable([orders EXCEPT ![o].state = "canceled",
                                        ![o].accFillSz = f,
                                        ![o].avgPx = IF f > 0 THEN orders[o].px ELSE 0],
                                   open_positions)
    /\ UNCHANGED <<state_vars, cache_vars, algos, equity, pc, tick_locals, cmd,
                   logged, oco_log, query_log, disk, other_vars>>

\* check_symbol returns: its locals are gone
Return ==
    /\ pc' = "idle"
    /\ sym' = NoSym
    /\ df' = NoDf
    /\ sig' = NoSig
    /\ last' = NoneVal
    /\ tr_local' = NoTrade
    /\ last_row' = NoRow
    /\ meta_hits' = 0
    /\ dip_entry' = FALSE
    /\ logged' = "none"
    /\ oco_log' = <<>>
    /\ query_log' = {}

\* Steps 4 and 5 leave at p holding signal sg: check_symbol has returned (its
\* locals are gone), or it is suspended in its last await (nothing reads the
\* frame or the ticker after it), or it is in its except clause
Locals(p, sg) ==
    IF p = "idle"
    THEN /\ sym' = NoSym /\ df' = NoDf /\ sig' = NoSig /\ last' = NoneVal
         /\ last_row' = NoRow
         /\ oco_log' = <<>> /\ query_log' = {}
    ELSE IF p \in {"entrySay", "gridSay", "cycleSay"}
    THEN /\ sym' = sym /\ df' = NoDf /\ sig' = sg /\ last' = NoneVal
         /\ UNCHANGED <<last_row, oco_log, query_log>>
    ELSE /\ sym' = sym /\ df' = df /\ sig' = sg /\ last' = last
         /\ UNCHANGED <<last_row, oco_log, query_log>>

\* lines 628-629: the exception is logged and check_symbol returns
ExceptClause ==
    /\ pc = "except"
    /\ Return
    /\ UNCHANGED <<state_vars, cache_vars, exch_vars, cmd, disk, other_vars>>

\* ---- check_and_attach_oco_for_grid ----
\* line 438: the order counts as a fill to protect
IsFill(st, filled_sz) == st = "filled" /\ filled_sz > 0

\* An exit order sized to the leg's ordered size, not to what was executed
OcoSizeAsOrdered(od, filled_sz) == od.size

\* line 443: the size of the exit order
OcoSize(od, filled_sz) == filled_sz

\* A loop that skips no leg
LegNeverDone(od) == FALSE

\* line 425: the leg is skipped as already handled
LegDone(od) == od.ocoPlaced

\* A loop that takes no leg's buy order for pending
NeverPending(od, pending_ids) == FALSE

\* line 430: the leg's buy order is still pending
StillPending(od, pending_ids) == od.buyOrdId \in pending_ids

\* The loop of lines 424-458 from leg i on.  out.qfail is the leg at which
\* client.order raises (0: none), out.ocoOk[i] whether place_algo_oco succeeds
\* for leg i.  acc = [legs, algos, changed, reqs, queried, raised].
RECURSIVE OcoLoop(_, _, _, _, _)
OcoLoop(acc, i, s, pending_ids, out) ==
    IF i > Len(acc.legs) \/ acc.raised THEN acc
    ELSE LET od == acc.legs[i]
         IN  IF LegDone(od) THEN OcoLoop(acc, i + 1, s, pending_ids, out)
             ELSE IF od.buyOrdId = 0 THEN OcoLoop(acc, i + 1, s, pending_ids, out)
             ELSE IF StillPending(od, pending_ids)
                  THEN OcoLoop(acc, i + 1, s, pending_ids, out)
             ELSE IF out.qfail = i THEN [acc EXCEPT !.raised = TRUE]
             ELSE
               LET d == orders[od.buyOrdId]
                   filled_sz == d.accFillSz
                   acc1 == [acc EXCEPT !.queried = @ \cup {od.buyOrdId}]
               IN  IF IsFill(d.state, filled_sz)
                   THEN LET avg_px == IF d.avgPx # 0 THEN d.avgPx ELSE od.buy
                            od1 == [od EXCEPT !.filledSz = filled_sz, !.fillPx = avg_px]
                            req == [instId |-> s, side |-> "sell", buyOrdId |-> od.buyOrdId,
                                    sz |-> OcoSize(od, filled_sz),
                                    tp |-> od.tp, sl |-> od.sl, ok |-> out.ocoOk[i]]
                        IN  IF out.ocoOk[i]
                            THEN OcoLoop(
                                   [acc1 EXCEPT
                                      !.legs[i] = [od1 EXCEPT !.ocoPlaced = TRUE,
                                                     !.ocoAlgoId = acc.algos + 1],
                                      !.algos = @ + 1,
                                      !.reqs = Append(@, req),
                                      !.changed = TRUE],
                                   i + 1, s, pending_ids, out)
                            ELSE OcoLoop(
                                   [acc1 EXCEPT !.legs[i] = od1, !.reqs = Append(@, req)],
                                   i + 1, s, pending_ids, out)
                   ELSE OcoLoop(
                          [acc1 EXCEPT
                             !.legs[i] = [od EXCEPT !.ocoPlaced = TRUE, !.ocoAlgoId = NoneVal],
                             !.changed = TRUE],
                          i + 1, s, pending_ids, out)

\* check_symbol lines 567-579: the frame and the ticker are fetched, then
\* check_and_attach_oco_for_grid (lines 415-461) runs
check_and_attach_oco_for_grid(s) ==
    /\ pc = "idle"
    /\ RUN_ENABLED
    /\ sym' = s
    /\ UNCHANGED <<trades_key, trades, alerts, config, cache_vars, orders, equity,
                   df, sig, last, tr_local, last_row, meta_hits, dip_entry, cmd,
                   other_vars>>
    /\ LET pos == open_positions[s]
       IN  \/ \* client.candles, client.ticker or client.orders_pending raises
              /\ pc' = "except"
              /\ logged' = "exchange"
              /\ UNCHANGED <<open_positions, algos, oco_log, query_log, disk>>
           \/ /\ IsFlat(pos) \/ pos.mode # "grid"
              /\ pc' = "dip"
              /\ UNCHANGED <<open_positions, algos, logged, oco_log, query_log, disk>>
           \/ /\ ~IsFlat(pos) /\ pos.mode = "grid"
              /\ \E out \in [qfail : 0..Len(pos.grid_orders),
                             ocoOk : [1..Len(pos.grid_orders) -> BOOLEAN]] :
                    LET acc0 == [legs |-> pos.grid_orders, algos |-> algos,
                                 changed |-> FALSE, reqs |-> <<>>, queried |-> {},
                                 raised |-> FALSE]
                        acc == OcoLoop(acc0, 1, s, PendingIds(orders, s), out)
                    IN  /\ open_positions' =
                              [open_positions EXCEPT ![s].grid_orders = acc.legs]
                        /\ algos' = acc.algos
                        /\ oco_log' = acc.reqs
                        /\ query_log' = acc.queried
                        /\ pc' = IF acc.raised THEN "except" ELSE "dip"
                        /\ logged' = IF acc.raised THEN "exchange" ELSE logged
                        /\ \* lines 460-461, not reached when client.order raised
                           disk' = IF acc.changed /\ ~acc.raised
                                   THEN save_state(Memory') ELSE disk

\* ---- get_instr_meta ----
\* The default precision of line 84 (0.01 / 0.000001) is finer than the unit of
\* this model: it rounds nothing, as tick 1 and lot 1 do here.
DefaultMeta == [tickSize |-> 1, lotSz |-> 1]

\* What the exchange may list for an instrument, or the default of line 84
MetaAnswers == {[tickSize |-> t, lotSz |-> 1] : t \in TickSizes} \cup {DefaultMeta}

\* A cache that never holds an entry
NeverCached(cached) == FALSE

\* line 75: instId in _INSTR_META
IsCached(cached) == cached # NoMeta

\* get_instr_meta: the cached entry, else the answer, which is then cached
get_instr_meta(cached, answer) == IF IsCached(cached) THEN cached ELSE answer

\* ---- trade log helpers ----
new_trade(id, symbol, mode, side, entry, stop, size) ==
    [id |-> id, symbol |-> symbol, mode |-> mode, side |-> side, entry |-> entry,
     stop |-> stop, size |-> size, risk_per_unit |-> Abs(entry - stop),
     open |-> TRUE, exit |-> NoneVal, pnl |-> 0, R |-> [num |-> 0, den |-> 1]]

\* The symbol's latest trade, open or not
LatestTradeOf(trs, symbol) ==
    LET c == {i \in 1..Len(trs) : trs[i].symbol = symbol}
    IN  IF c = {} THEN 0 ELSE CHOOSE i \in c : \A j \in c : j <= i

\* close_trade_by_symbol, lines 215-216: the trade it closes (0: none)
TradeToClose(trs, symbol) ==
    LET c == {i \in 1..Len(trs) : trs[i].symbol = symbol /\ trs[i].open}
    IN  IF c = {} THEN 0 ELSE CHOOSE i \in c : \A j \in c : j <= i

\* close_trade_by_symbol, lines 217-222.  The denominator max(1e-9, r) is r for
\* every r >= 1 and stands as 0 for the 1e-9 of a zero risk.
closed_trade(tr, exit_px) ==
    LET pnl == IF tr.side = "long" THEN (exit_px - tr.entry) * tr.size
               ELSE (tr.entry - exit_px) * tr.size
    IN  [tr EXCEPT !.open = FALSE, !.exit = exit_px, !.pnl = pnl,
                   !.R = [num |-> pnl, den |-> Max(0, tr.risk_per_unit * tr.size)]]

\* "size * entry >= risk_cfg.min_position_usd and size > 0"
SizeOk(size, px) == size * px >= MinPositionUsd /\ size > 0

\* A resting limit buy as the exchange books it
new_order(s, px, sz) ==
    [instId |-> s, px |-> px, sz |-> sz, state |-> "live", accFillSz |-> 0, avgPx |-> 0]

new_leg(oid, buy, tp, sl, size) ==
    [buyOrdId |-> oid, buy |-> buy, tp |-> tp, sl |-> sl, size |-> size,
     ocoPlaced |-> FALSE, ocoAlgoId |-> NoneVal, filledSz |-> NoneVal, fillPx |-> NoneVal]

\* A Trend position laid out with a list of grid orders as well
trend_position_with_grid(entry, stop, size, trade_id) ==
    [mode |-> "trend", side |-> "long", entry |-> entry, stop |-> stop, size |-> size,
     trail |-> NoneVal, trade_id |-> trade_id, grid_orders |-> <<>>]

\* lines 514-516 and 608-610
trend_position(entry, stop, size, trade_id) ==
    [mode |-> "trend", side |-> "long", entry |-> entry, stop |-> stop, size |-> size,
     trail |-> NoneVal, trade_id |-> trade_id]

\* ---- the synchronous stretch of check_symbol from step 2 to step 3 ----
\* m = [pos, trades, orders, meta, pc, why, tr, saved] is what the stretch has
\* made of the symbol's position, the trades, the exchange's orders and the
\* symbol's cached precision; m.pc = "run" while it runs on, else where it
\* stopped; m.saved when its last change of the state was followed by save_state.
\* Each step gives the set of ways it can go: the exchange may raise, and
\* answers as it likes.
Raised(m, why) == [m EXCEPT !.pc = "except", !.why = why]

\* log_new_trade and the assignment of the Trend position (lines 513-517 and
\* 607-611); a state without 'trades' raises KeyError at line 197
open_trend(m, s, entry, stop, size, await) ==
    IF ~trades_key THEN Raised(m, "KeyError")
    ELSE [m EXCEPT !.trades = Append(@, new_trade(Len(m.trades) + 1, s, "trend", "long",
                                                   entry, stop, size)),
                   !.pos = trend_position(entry, stop, size, Len(m.trades) + 1),
                   !.saved = TRUE,
                   !.pc = await]

\* The answers get_instr_meta may get: none is asked for once the entry is cached
MetaChoices(cached) == IF IsCached(cached) THEN {cached} ELSE MetaAnswers

\* A call of get_instr_meta by the stretch at m: the entry is returned from
\* the cache (line 76), or _fetch_instruments is called (line 77) and its
\* answer, or the default of line 84, is stored
Lookup(m, answer) ==
    [m EXCEPT !.meta = get_instr_meta(m.meta, answer),
              !.fetches = IF IsCached(m.meta) THEN @ ELSE @ + 1,
              !.hits = IF IsCached(m.meta) THEN @ + 1 ELSE @]

\* The momentum columns of the last indicator row
MomentumRows == [adx : {21, AdxTrend}, ema_fast : {100}, ema_slow : {90, 100}]

\* A filter that any row passes
AnyMomentum(row) == TRUE

\* line 502: the momentum filters confirm
MomentumConfirms(row) == row.adx >= AdxTrend /\ row.ema_fast > row.ema_slow

\* The highest of the levels
HighestLevel(levels) == CHOOSE p \in levels : \A q \in levels : p >= q

\* lines 466-467 and 471, 499: element 0 of the sorted levels
LowestLevel(levels) == CHOOSE p \in levels : \A q \in levels : p <= q

\* A table from which the level that triggered is taken out
disarmed(al, s, level) == [al EXCEPT ![s].dip = @ \ {level}]

\* lines 465-471: the levels are read from state['alerts'], and the level that
\* triggers stays in it: nothing in handle_dip_breakout writes the table
still_armed(al, s, level) == al

\* handle_dip_breakout, lines 465-495: the set of ways the dip path can go.
\* client.balance or client.place_order may raise; both leave the same state.
dip_step(m, s, d, l) ==
    LET dips == {p \in alerts[s].dip : l <= p}
    IN  IF ~(dips # {} /\ config.auto_dip /\ EntryAllowed(m.pos)) THEN {m}
        ELSE UNION {
          LET m1 == Lookup(m, answer)
              meta == m1.meta
              level == round_to_tick(LowestLevel(dips), meta.tickSize)
              atr == d.atr
              tp == round_to_tick(level + 2 * atr, meta.tickSize)
              sl == round_to_tick(Max(0, level - (15 * atr) \div 10), meta.tickSize)
              size == round_size(position_size_spot(equity, level, sl, RiskPerTrade),
                                 meta.lotSz)
          IN  {Raised(m1, "exchange")} \cup
              (IF ~SizeOk(size, level) THEN {m1}
               ELSE IF Len(m.orders) >= MaxOrders THEN {}
               ELSE {[m1 EXCEPT
                        !.orders = Append(@, new_order(s, level, size)),
                        !.pos = [mode |-> "grid", side |-> "long",
                                 grid |-> [step |-> round_to_tick(atr \div 2, meta.tickSize)],
                                 grid_orders |->
                                    <<new_leg(Len(m.orders) + 1, level, tp, sl, size)>>],
                        !.alerts = still_armed(@, s, LowestLevel(dips)),
                        !.saved = TRUE,
                        !.pc = "dipSay"]})
          : answer \in MetaChoices(m.meta)}

\* handle_dip_breakout, lines 497-518: the set of ways the breakout path can
\* go, over the momentum columns line 501 may read.
brk_step(m, s, d, l) ==
    LET breaks == {p \in alerts[s].breakout : l >= p}
    IN  IF ~(breaks # {} /\ config.auto_breakout /\ EntryAllowed(m.pos)) THEN {m}
        ELSE UNION {
          IF ~MomentumConfirms(row) THEN {m}
          ELSE UNION {
          LET m1 == Lookup([m EXCEPT !.row = row], answer)
              meta == m1.meta
              entry == round_to_tick(l, meta.tickSize)
              sl == round_to_tick(l - 2 * d.atr, meta.tickSize)
              size == round_size(position_size_spot(equity, entry, sl, RiskPerTrade),
                                 meta.lotSz)
          IN  {Raised(m1, "exchange")} \cup
              (IF ~SizeOk(size, entry) THEN {m1}
               ELSE IF Len(m.trades) >= MaxTrades THEN {}
               ELSE {open_trend(m1, s, entry, sl, size, "brkSay")})
          : answer \in MetaChoices(m.meta)}
          : row \in MomentumRows}

\* Python truthiness of "if new_trail"
Truthy(x) == x # NoneVal /\ x # 0

\* line 589: the trail the position gets
NextTrail(pos, new_trail) ==
    IF Truthy(new_trail) THEN update_trailing_stop(pos.trail, new_trail, pos.side)
    ELSE pos.trail

\* line 591: the stop-out test; max() of None and a float raises TypeError
StopLevel(pos) == Max(pos.trail, pos.stop)
StopHit(pos, px) == pos.side = "long" /\ px <= StopLevel(pos)

\* check_symbol step 3, lines 585-593
trend_step(m, s, d, l) ==
    IF IsFlat(m.pos) \/ m.pos.mode # "trend" THEN m
    ELSE
      LET new_trail == atr_trailing_stop(d, 25, m.pos.side)
          pos1 == [m.pos EXCEPT !.trail = NextTrail(m.pos, new_trail)]
          m1 == [m EXCEPT !.pos = pos1]
          i == TradeToClose(m.trades, s)
      IN  IF pos1.side = "long" /\ pos1.trail = NoneVal THEN Raised(m1, "TypeError")
          ELSE IF ~StopHit(pos1, l) THEN m1
          ELSE IF i = 0
          THEN \* tr is None: tr['R'] raises TypeError at line 593
               Raised(m1, "TypeError")
          ELSE [m1 EXCEPT !.trades[i] = closed_trade(@, l),
                          !.tr = closed_trade(m.trades[i], l),
                          !.saved = TRUE,
                          !.pc = "stopSay"]

RunFromTrend(m, s, d, l) ==
    LET c == trend_step(m, s, d, l)
    IN  {IF c.pc # "run" THEN c ELSE [c EXCEPT !.pc = "entry"]}

RunFromBreakout(m, s, d, l) ==
    UNION {IF b.pc # "run" THEN {b} ELSE RunFromTrend(b, s, d, l) :
           b \in brk_step(m, s, d, l)}

RunFromDip(m, s, d, l) ==
    UNION {IF a.pc # "run" THEN {a} ELSE RunFromBreakout(a, s, d, l) :
           a \in dip_step(m, s, d, l)}

Machine ==
    [pos |-> open_positions[sym], trades |-> trades, orders |-> orders,
     alerts |-> alerts,
     meta |-> instr_meta[sym], fetches |-> instr_fetches[sym], hits |-> meta_hits,
     row |-> NoRow, pc |-> "run", why |-> "none", tr |-> NoTrade, saved |-> FALSE]

\* The stretch has stopped at m: its effects are the state
Commit(m) ==
    /\ open_positions' = [open_positions EXCEPT ![sym] = m.pos]
    /\ trades' = m.trades
    /\ orders' = Observable(m.orders, open_positions')
    /\ instr_meta' = [instr_meta EXCEPT ![sym] = m.meta]
    /\ instr_fetches' = [instr_fetches EXCEPT ![sym] = m.fetches]
    /\ meta_hits' = m.hits
    /\ dip_entry' = (dip_entry \/ m.pc = "dipSay")
    /\ last_row' = IF m.pc = "brkSay" THEN m.row ELSE NoRow
    /\ pc' = m.pc
    /\ logged' = m.why
    /\ tr_local' = m.tr
    /\ query_log' = {}
    /\ alerts' = m.alerts
    /\ UNCHANGED <<trades_key, config, algos, equity, sym, sig, cmd, oco_log,
                   other_vars>>
    /\ disk' = IF m.saved THEN save_state(Memory') ELSE disk

\* check_symbol lines 576-593: steps 2 and 3 up to their first await
AutoAndTrend ==
    /\ pc = "dip"
    /\ \E d \in Frames, l \in Lasts \cup {NoneVal} :
          LET px == IF l = NoneVal THEN d.close ELSE l
          IN  /\ df' = d
              /\ last' = px
              /\ \E m \in RunFromDip(Machine, sym, d, px) : Commit(m)

\* lines 493-495: say and send_plot return; the breakout path and step 3 follow
DipSay ==
    /\ pc = "dipSay"
    /\ \E m \in RunFromBreakout(Machine, sym, df, last) : Commit(m)
    /\ UNCHANGED <<df, last>>

\* line 518: say returns; step 3 follows
BreakoutSay ==
    /\ pc = "brkSay"
    /\ \E m \in RunFromTrend(Machine, sym, df, last) : Commit(m)
    /\ UNCHANGED <<df, last>>

\* lines 593-595: say returns, then the position is popped and the state saved
StopOutPop ==
    /\ pc = "stopSay"
    /\ open_positions' = [open_positions EXCEPT ![sym] = NoPos]
    /\ pc' = "entry"
    /\ tr_local' = NoTrade
    /\ UNCHANGED <<trades_key, trades, alerts, config, cache_vars, exch_vars,
                   sym, df, sig, last, last_row, meta_hits, dip_entry, cmd, logged, oco_log,
                   query_log, other_vars>>
    /\ disk' = save_state(Memory')

\* ---- place_grid_orders, lines 521-556 ----
round_grid_plan(plan, tick) ==
    [plan EXCEPT !.levels = [i \in DOMAIN plan.levels |->
                                [buy |-> round_to_tick(plan.levels[i].buy, tick),
                                 sell |-> round_to_tick(plan.levels[i].sell, tick)]],
                 !.step = round_to_tick(plan.step, tick)]

\* line 538: risk_per_trade / max(1, grid_levels)
LotRisk == [num |-> RiskPerTrade.num, den |-> RiskPerTrade.den * Max(1, GridLevels)]

\* The orders the exchange takes before client.place_order raises: MaxOrders
\* while check_symbol is run by the engine's own task, OverlapOrders once the
\* scheduler's periodic tasks place them, two ladders then being needed
OrderCap ==
    IF \A t \in 1..MaxTasks : tasks[t].pc = "none" THEN MaxOrders ELSE OverlapOrders

\* The loop of lines 542-552 from level i on.  fail_at is the client.place_order
\* call (counted among those made) that raises, 0 for none.
\* acc = [grid_orders, orders, placed, raised].
RECURSIVE GridLoop(_, _, _, _, _, _, _)
GridLoop(acc, i, s, plan, meta, atr, fail_at) ==
    IF i > Len(plan.levels) \/ acc.raised THEN acc
    ELSE LET buy == plan.levels[i].buy
             tp == plan.levels[i].sell
             sl == round_to_tick(buy - Max((8 * atr) \div 10, plan.step), meta.tickSize)
             size == round_size(position_size_spot(equity, buy, sl, LotRisk), meta.lotSz)
         IN  IF ~SizeOk(size, buy)
             THEN GridLoop(acc, i + 1, s, plan, meta, atr, fail_at)
             ELSE IF fail_at = acc.placed + 1 \/ Len(acc.orders) >= OrderCap
             THEN [acc EXCEPT !.raised = TRUE]
             ELSE GridLoop(
                    [acc EXCEPT
                       !.orders = Append(@, new_order(s, buy, size)),
                       !.grid_orders = Append(@, new_leg(Len(acc.orders) + 1, buy, tp, sl, size)),
                       !.placed = @ + 1],
                    i + 1, s, plan, meta, atr, fail_at)

\* lines 554-555: what place_grid_orders makes of the position once its loop
\* has ended
RecordGrid(pos, plan, grid_orders) ==
    IF grid_orders # <<>>
    THEN [mode |-> "grid", side |-> "long", grid |-> plan, grid_orders |-> grid_orders]
    ELSE pos

place_grid_orders(sg, meta) ==
    LET plan == round_grid_plan(sg, meta.tickSize)
    IN  \/ \* client.balance raises
           /\ pc' = "except"
           /\ logged' = "exchange"
           /\ UNCHANGED <<open_positions, orders, disk>>
        \/ \E fail_at \in 0..GridLevels :
              LET acc == GridLoop([grid_orders |-> <<>>, orders |-> orders,
                                   placed |-> 0, raised |-> FALSE],
                                  1, sym, plan, meta, df.atr, fail_at)
              IN  /\ IF acc.raised
                     THEN /\ pc' = "except"
                          /\ logged' = "exchange"
                          /\ UNCHANGED open_positions
                     ELSE /\ open_positions' = [open_positions EXCEPT ![sym] =
                                RecordGrid(@, plan, acc.grid_orders)]
                          /\ pc' = IF acc.grid_orders # <<>> THEN "gridSay" ELSE "idle"
                          /\ UNCHANGED logged
                  /\ orders' = Observable(acc.orders, open_positions')
                  /\ \* line 556
                     disk' = IF ~acc.raised /\ acc.grid_orders # <<>>
                             THEN save_state(Memory') ELSE disk

\* ---- check_symbol step 5, lines 617-626 ----
\* lines 621-623: no buy order of the position is pending any more
CycleFinished(pos, pending_ids) ==
    LET my_ids == {pos.grid_orders[i].buyOrdId : i \in DOMAIN pos.grid_orders} \ {0}
    IN  pending_ids \cap my_ids = {}

\* ---- check_symbol step 4, lines 597-615 ----
NewEntry ==
    /\ pc = "entry"
    /\ EntryAllowed(open_positions[sym])
    /\ UNCHANGED <<trades_key, alerts, config, algos, equity, tr_local, cmd, other_vars>>
    /\ \E x \in SignalColumns, answer \in MetaChoices(instr_meta[sym]) :
          LET sg == generate_signal(Row(df, x), strat_cfg)
              looked == Lookup(Machine, answer)
              meta == looked.meta
              Cached == /\ instr_meta' = [instr_meta EXCEPT ![sym] = meta]
                        /\ instr_fetches' = [instr_fetches EXCEPT ![sym] = looked.fetches]
          IN  /\ IF sg.mode = "trend" /\ ~sg.noop
                 THEN LET entry == round_to_tick(sg.entry, meta.tickSize)
                          stop == round_to_tick(sg.stop, meta.tickSize)
                          size == round_size(
                                    position_size_spot(equity, entry, stop, RiskPerTrade),
                                    meta.lotSz)
                      IN  /\ Cached
                          /\ UNCHANGED orders
                          /\ \/ \* client.balance raises
                                /\ pc' = "except"
                                /\ logged' = "exchange"
                                /\ UNCHANGED <<open_positions, trades, disk>>
                             \/ /\ ~SizeOk(size, entry)
                                /\ pc' = "idle"
                                /\ UNCHANGED <<open_positions, trades, logged, disk>>
                             \/ /\ SizeOk(size, entry)
                                /\ Len(trades) < MaxTrades
                                /\ LET m == open_trend(Machine, sym, entry, stop, size,
                                                       "entrySay")
                                   IN  /\ open_positions' =
                                             [open_positions EXCEPT ![sym] = m.pos]
                                       /\ trades' = m.trades
                                       /\ pc' = m.pc
                                       /\ logged' = m.why
                                       /\ disk' = IF m.saved THEN save_state(Memory')
                                                  ELSE disk
                 ELSE IF sg.mode = "grid" /\ ~sg.noop
                 THEN /\ Cached
                      /\ UNCHANGED trades
                      /\ place_grid_orders(sg, meta)
                 ELSE /\ pc' = "idle"
                      /\ UNCHANGED <<open_positions, trades, orders, cache_vars, logged,
                                     disk>>
              /\ Locals(pc', sg)
              /\ meta_hits' = IF pc' = "idle" THEN 0 ELSE looked.hits
              /\ dip_entry' = (pc' # "idle" /\ dip_entry)

\* ---- check_symbol step 5, lines 616-624 ----
CycleCheck ==
    /\ pc = "entry"
    /\ ~EntryAllowed(open_positions[sym])
    /\ LET pos == open_positions[sym]
       IN  IF pos.mode = "grid"
           THEN \/ \* client.orders_pending raises
                   /\ pc' = "except"
                   /\ logged' = "exchange"
                \/ /\ pc' = IF CycleFinished(pos, PendingIds(orders, sym))
                            THEN "cycleSay" ELSE "idle"
                   /\ UNCHANGED logged
           ELSE /\ pc' = "idle"
                /\ UNCHANGED logged
    /\ Locals(pc', sig)
    /\ meta_hits' = IF pc' = "idle" THEN 0 ELSE meta_hits
    /\ dip_entry' = (pc' # "idle" /\ dip_entry)
    /\ UNCHANGED <<state_vars, cache_vars, exch_vars, tr_local, cmd, disk, other_vars>>

\* lines 612 and 557-564: say and send_plot return; check_symbol ends
EndCheck ==
    /\ pc \in {"entrySay", "gridSay"}
    /\ Return
    /\ UNCHANGED <<state_vars, cache_vars, exch_vars, cmd, disk, other_vars>>

\* lines 624-626: say returns, then the position is popped and the state saved
CyclePop ==
    /\ pc = "cycleSay"
    /\ open_positions' = [open_positions EXCEPT ![sym] = NoPos]
    /\ orders' = Observable(orders, open_positions')
    /\ Return
    /\ UNCHANGED <<trades_key, trades, alerts, config, cache_vars, algos, equity, cmd,
                   other_vars>>
    /\ disk' = save_state(Memory')

\* ---- cmd_close, lines 351-364 ----
\* The handler runs while the periodic task is idle or suspended in an await.
\* px is the ticker's last, or the fallback pos.get('entry', 0) of an empty ticker.
CmdCloseBegin(s) ==
    /\ cmd.pc = "idle"
    /\ pc \in AwaitPcs \cup {"idle"}
    /\ ~IsFlat(open_positions[s])
    /\ trades_key
    /\ \E px \in ExitPrices \cup
                 {IF open_positions[s].mode = "trend" THEN open_positions[s].entry ELSE 0} :
          LET i == TradeToClose(trades, s)
          IN  trades' = IF i = 0 THEN trades
                        ELSE [trades EXCEPT ![i] = closed_trade(@, px)]
    /\ cmd' = [pc |-> "reply", sym |-> s]
    /\ UNCHANGED <<trades_key, open_positions, alerts, config, cache_vars, exch_vars,
                   pc, tick_locals, logged, oco_log, query_log, other_vars>>
    /\ \* line 223, reached when a trade was closed
       disk' = IF TradeToClose(trades, s) # 0 THEN save_state(Memory') ELSE disk

\* lines 363-364: reply_text returns, then the position is popped and the state saved
CmdCloseEnd ==
    /\ cmd.pc = "reply"
    /\ pc \in AwaitPcs \cup {"idle"}
    /\ open_positions' = [open_positions EXCEPT ![cmd.sym] = NoPos]
    /\ orders' = Observable(orders, open_positions')
    /\ cmd' = CmdIdle
    /\ UNCHANGED <<trades_key, trades, alerts, config, cache_vars, algos, equity,
                   pc, tick_locals, logged, oco_log, query_log, other_vars>>
    /\ disk' = save_state(Memory')

Next ==
    \/ \E s \in Symbols : check_and_attach_oco_for_grid(s)
    \/ AutoAndTrend
    \/ DipSay
    \/ BreakoutSay
    \/ StopOutPop
    \/ NewEntry
    \/ CycleCheck
    \/ EndCheck
    \/ CyclePop
    \/ ExceptClause
    \/ \E s \in Symbols : CmdCloseBegin(s)
    \/ CmdCloseEnd
    \/ \E o \in 1..Len(orders) : ExchFill(o)
    \/ \E o \in 1..Len(orders) : ExchCancel(o)

Spec == Init /\ [][Next]_vars

\* ---- risk.py: position_size_spot called on its own ----
\* the arguments a caller may pass: any balance, any risk fraction as a
\* rational, any two prices
CallEquities == {0 - 1000, 0, 1000, 10000}
CallRiskFractions ==
    {[num |-> n, den |-> 100] : n \in {0 - 1, 0, 1, 100}}
CallEntries == {98, 100, 102}
CallStops == {98, 100}

\* the engine before its first tick, started without a state file
EngineAtRest ==
    /\ EngineInit
    /\ disk = NoFile
    /\ equity = 1000

RiskInit ==
    /\ EngineAtRest
    /\ SchedAtRest
    /\ request = NoCall
    /\ gen = NoCall
    /\ call \in [pc : {"called"}, equity_usd : CallEquities, entry : CallEntries,
                  stop : CallStops, risk_per_trade : CallRiskFractions]

\* lines 16-25: the call returns
SizeReturn ==
    /\ call.pc = "called"
    /\ call' = [pc |-> "returned", equity_usd |-> call.equity_usd, entry |-> call.entry,
                stop |-> call.stop, risk_per_trade |-> call.risk_per_trade,
                size |-> position_size_spot(call.equity_usd, call.entry, call.stop,
                                            call.risk_per_trade)]
    /\ UNCHANGED <<engine_vars, sched_vars, client_vars, strategy_vars>>

RiskNext == SizeReturn

SpecRisk == RiskInit /\ [][RiskNext]_vars

\* ---- the scheduler, periodic and /pause, /resume ----
\* A periodic task tk: pc is "ready" once created, "await" while
\* check_symbol(WATCHLIST[i]) is suspended in an await, "done" when the loop
\* has ended, "raised" when an exception has left periodic; start tells
\* whether RUN_ENABLED held when the task began to run; checked are the symbols
\* whose check_symbol went past line 569, skipped those for which it returned
\* there, raised those in whose check_symbol an exception was raised, unsaved
\* those among them where it was save_state that raised, logged those whose
\* exception line 629 logged.  i is the index of the list iterator of line
\* 633, sym the symbol it gave last; first is the watchlist as the loop
\* found it when it began, calls the symbols check_symbol was called with, in
\* order, gone the symbols /rm took off the list while the task was
\* suspended.
new_task ==
    [pc |-> "ready", i |-> 1, sym |-> "-", start |-> "-", first |-> <<>>,
     calls |-> <<>>, gone |-> {}, checked |-> {}, skipped |-> {},
     raised |-> {}, unsaved |-> {}, logged |-> {}]

\* What a stretch of check_symbol may end in: its return, an await that
\* suspends, an exception of the exchange client or of the data handling
\* (requests.HTTPError, KeyError, ValueError, TypeError), or the OSError of
\* STATE_FILE.write_text in save_state (storage.py line 27)
Errors == {"exchange", "save"}
Endings == {"return", "await"} \cup Errors

\* An except clause that catches nothing
CatchesNothing(err) == FALSE

\* line 628: except Exception catches every one of them
Catches(err) == err \in Errors

\* lines 570-629: check_symbol(tk.sym) has raised err inside its try
Raise(tk, err) ==
    LET s == tk.sym
        tk1 == [tk EXCEPT !.raised = @ \cup {s},
                          !.unsaved = IF err = "save" THEN @ \cup {s} ELSE @]
    IN  IF Catches(err)
        THEN [tk1 EXCEPT !.logged = @ \cup {s}]
        ELSE [tk1 EXCEPT !.pc = "raised"]

\* lines 632-634 with 567-569: the loop from index tk.i of the list on, up
\* to the next await that suspends or to its end.  The iterator of the for
\* statement keeps an index into the list object and reads the list as it
\* is when the next symbol is asked for.  Nothing else runs in between, so
\* the flag is en throughout; ends[i] tells how the stretch of
\* check_symbol(watchlist[i]) that begins at line 570 ends.
RECURSIVE periodic(_, _, _)
periodic(tk, en, ends) ==
    IF tk.pc = "raised" THEN tk
    ELSE IF tk.i > Len(watchlist) THEN [tk EXCEPT !.pc = "done"]
    ELSE LET s == watchlist[tk.i]
             tk0 == [tk EXCEPT !.sym = s, !.calls = Append(@, s)]
         IN  IF ~en
             THEN periodic([tk0 EXCEPT !.skipped = @ \cup {s}, !.i = @ + 1], en, ends)
             ELSE LET tk1 == [tk0 EXCEPT !.checked = @ \cup {s}]
                  IN  IF ends[tk.i] = "await" THEN [tk1 EXCEPT !.pc = "await"]
                      ELSE IF ends[tk.i] \in Errors
                      THEN periodic([Raise(tk1, ends[tk.i]) EXCEPT !.i = @ + 1], en, ends)
                      ELSE periodic([tk1 EXCEPT !.i = @ + 1], en, ends)

Suspensions == [1..Len(WATCHLIST) -> Endings]

\* lines 709-710: the interval job runs; it creates a task and returns
TimerFires(t) ==
    /\ tasks[t].pc \in {"none", "done", "raised"}
    /\ tasks' = [tasks EXCEPT ![t] = new_task]
    /\ UNCHANGED <<engine_vars, risk_vars, client_vars, strategy_vars, RUN_ENABLED,
                   watchlist>>

\* the event loop runs the new task for the first time
TaskStart(t) ==
    /\ tasks[t].pc = "ready"
    /\ \E ends \in Suspensions :
          tasks' = [tasks EXCEPT ![t] =
                       periodic([tasks[t] EXCEPT
                                    !.start = IF RUN_ENABLED THEN "enabled" ELSE "paused",
                                    !.first = watchlist],
                                RUN_ENABLED, ends)]
    /\ UNCHANGED <<engine_vars, risk_vars, client_vars, strategy_vars, RUN_ENABLED,
                   watchlist>>

\* the await inside check_symbol returns: check_symbol runs to its end, by
\* its return or by an exception (a further await changes nothing here), and
\* the loop goes on
TaskResume(t) ==
    /\ tasks[t].pc = "await"
    /\ \E end \in {"return"} \cup Errors, ends \in Suspensions :
          LET tk == IF end \in Errors THEN Raise(tasks[t], end)
                    ELSE [tasks[t] EXCEPT !.pc = "ready"]
          IN  tasks' = [tasks EXCEPT ![t] =
                           periodic([tk EXCEPT !.i = @ + 1], RUN_ENABLED, ends)]
    /\ UNCHANGED <<engine_vars, risk_vars, client_vars, strategy_vars, RUN_ENABLED,
                   watchlist>>

\* lines 296-299
cmd_pause ==
    /\ RUN_ENABLED' = FALSE
    /\ UNCHANGED <<engine_vars, risk_vars, client_vars, strategy_vars, watchlist, tasks>>

\* lines 301-304
cmd_resume ==
    /\ RUN_ENABLED' = TRUE
    /\ UNCHANGED <<engine_vars, risk_vars, client_vars, strategy_vars, watchlist, tasks>>

\* sym in WATCHLIST
OnList(l, s) == \E j \in 1..Len(l) : l[j] = s

\* WATCHLIST.remove(sym): the list without the first item equal to s
RECURSIVE remove(_, _)
remove(l, s) ==
    IF l = <<>> THEN <<>>
    ELSE IF Head(l) = s THEN Tail(l)
    ELSE <<Head(l)>> \o remove(Tail(l), s)

\* lines 262-267: /add s; the list is changed before the handler's await
cmd_add(s) ==
    /\ watchlist' = IF OnList(watchlist, s) THEN watchlist ELSE Append(watchlist, s)
    /\ UNCHANGED <<engine_vars, risk_vars, client_vars, strategy_vars, RUN_ENABLED, tasks>>

\* lines 269-274: /rm s; the list is changed before the handler's await
cmd_rm(s) ==
    /\ watchlist' = IF OnList(watchlist, s) THEN remove(watchlist, s) ELSE watchlist
    /\ tasks' = [t \in 1..MaxTasks |->
                   IF tasks[t].pc = "await" /\ OnList(watchlist, s)
                   THEN [tasks[t] EXCEPT !.gone = @ \cup {s}]
                   ELSE tasks[t]]
    /\ UNCHANGED <<engine_vars, risk_vars, client_vars, strategy_vars, RUN_ENABLED>>

SchedInit ==
    /\ EngineAtRest
    /\ call = NoCall
    /\ request = NoCall
    /\ gen = NoCall
    /\ SchedAtRest

SchedNext ==
    \/ \E t \in 1..MaxTasks : TimerFires(t)
    \/ \E t \in 1..MaxTasks : TaskStart(t)
    \/ \E t \in 1..MaxTasks : TaskResume(t)
    \/ cmd_pause
    \/ cmd_resume

SpecSched == SchedInit /\ [][SchedNext]_vars

\* one periodic task at a time, with /add and /rm handled while it is
\* suspended
WatchNext ==
    \/ TimerFires(1)
    \/ TaskStart(1)
    \/ TaskResume(1)
    \/ \E s \in {WATCHLIST[j] : j \in 1..Len(WATCHLIST)} : cmd_add(s)
    \/ \E s \in {WATCHLIST[j] : j \in 1..Len(WATCHLIST)} : cmd_rm(s)

SpecWatch == SchedInit /\ [][WatchNext]_vars

\* ---- periodic tasks that overlap in check_symbol of one symbol ----
\* Line 710 creates a task at every firing of the timer, whether or not an
\* earlier one is still suspended.  Here the tasks work the ledger and the
\* exchange themselves, with check_symbol(s) reduced to the Grid mode of its
\* steps 4 and 5: steps 1 to 3 and the Trend entry neither create nor remove
\* a Grid position.  The engine's own pc stays idle.
\*
\* lines 567-626 up to the first await or the end: a flat symbol with a
\* grid signal gets its ladder (lines 614-615), a Grid position with no
\* pending buy order is announced as finished (lines 617-624)
tick_begin(t, s) ==
    /\ tasks[t].pc = "ready"
    /\ RUN_ENABLED
    /\ UNCHANGED <<trades_key, trades, alerts, config, algos, equity, pc, tick_locals,
                   cmd, logged, oco_log, query_log, risk_vars, client_vars,
                   strategy_vars, RUN_ENABLED, watchlist>>
    /\ IF EntryAllowed(open_positions[s])
       THEN \E d \in Frames, x \in SignalColumns, answer \in MetaChoices(instr_meta[s]),
               fail_at \in 0..GridLevels :
               LET sg == generate_signal(Row(d, x), strat_cfg)
                   meta == get_instr_meta(instr_meta[s], answer)
               IN  IF sg.mode = "grid" /\ ~sg.noop
                   THEN LET plan == round_grid_plan(sg, meta.tickSize)
                            acc == GridLoop([grid_orders |-> <<>>, orders |-> orders,
                                             placed |-> 0, raised |-> FALSE],
                                            1, s, plan, meta, d.atr, fail_at)
                            said == ~acc.raised /\ acc.grid_orders # <<>>
                        IN  /\ instr_meta' = [instr_meta EXCEPT ![s] = meta]
                            /\ instr_fetches' = [instr_fetches EXCEPT ![s] =
                                                    IF IsCached(instr_meta[s]) THEN @ ELSE @ + 1]
                            /\ open_positions' =
                                  IF acc.raised THEN open_positions
                                  ELSE [open_positions EXCEPT ![s] =
                                           RecordGrid(@, plan, acc.grid_orders)]
                            /\ orders' = Observable(acc.orders, open_positions')
                            /\ disk' = IF said THEN save_state(Memory') ELSE disk
                            /\ tasks' = [tasks EXCEPT ![t].sym = s,
                                             ![t].pc = IF said THEN "gridSay" ELSE "done"]
                   ELSE /\ tasks' = [tasks EXCEPT ![t].sym = s, ![t].pc = "done"]
                        /\ UNCHANGED <<open_positions, orders, cache_vars, disk>>
       ELSE /\ tasks' = [tasks EXCEPT ![t].sym = s,
                            ![t].pc = IF /\ open_positions[s].mode = "grid"
                                         /\ CycleFinished(open_positions[s],
                                                          PendingIds(orders, s))
                                      THEN "cycleSay" ELSE "done"]
            /\ UNCHANGED <<open_positions, orders, cache_vars, disk>>

\* lines 557-564: say and send_plot of place_grid_orders return
tick_grid_said(t) ==
    /\ tasks[t].pc = "gridSay"
    /\ tasks' = [tasks EXCEPT ![t].pc = "done"]
    /\ UNCHANGED <<engine_vars, risk_vars, client_vars, strategy_vars, RUN_ENABLED,
                   watchlist>>

\* lines 624-626: say returns, then the position is popped and the state saved
tick_cycle_pop(t) ==
    /\ tasks[t].pc = "cycleSay"
    /\ open_positions' = [open_positions EXCEPT ![tasks[t].sym] = NoPos]
    /\ orders' = Observable(orders, open_positions')
    /\ tasks' = [tasks EXCEPT ![t].pc = "done"]
    /\ UNCHANGED <<trades_key, trades, alerts, config, cache_vars, algos, equity, pc,
                   tick_locals, cmd, logged, oco_log, query_log, risk_vars, client_vars,
                   strategy_vars, RUN_ENABLED, watchlist>>
    /\ disk' = save_state(Memory')

OverlapNext ==
    \/ \E t \in 1..MaxTasks : TimerFires(t)
    \/ \E t \in 1..MaxTasks : \E s \in Symbols : tick_begin(t, s)
    \/ \E t \in 1..MaxTasks : tick_grid_said(t)
    \/ \E t \in 1..MaxTasks : tick_cycle_pop(t)
    \/ \E o \in 1..Len(orders) : ExchFill(o)
    \/ \E o \in 1..Len(orders) : ExchCancel(o)

SpecOverlap == Init /\ [][OverlapNext]_vars

\* ---- OkxClient._request, okx_client.py lines 94-123 ----
\* okx_client.py line 28: max_retries
MaxRetries == 2

\* The "code" of an answer: "0" for success, 50011 (rate limit), 50013 (system
\* busy), 50026 (system error), 51008 (insufficient balance), 51121 (size not a
\* multiple of the lot), 1 (operation failed: the order was rejected)
Codes == {"0", "50011", "50013", "50026", "51008", "51121", "1"}

\* How one attempt can go: an answer with a code, an HTTP error status
\* (raise_for_status raises), or no answer (the session raises)
Answers == Codes \cup {"http", "timeout"}

\* line 113
RetryCodes == {"50011", "50013", "50026", "51008"}

\* GET /api/v5/account/balance and the like; POST /api/v5/trade/order
\* (place_order, line 228) and /api/v5/trade/order-algo (place_algo_oco)
Methods == {"GET", "POST"}

\* An except clause that sleeps and goes round again whatever the attempt
ExceptAlwaysRetries(r) == [r EXCEPT !.attempt = @ + 1]

\* lines 118-123: the except clause of the attempt, which also receives the
\* HTTPError that line 116 raises inside the try
ExceptAttempt(r) ==
    IF r.attempt < MaxRetries
    THEN [r EXCEPT !.attempt = @ + 1]
    ELSE [r EXCEPT !.pc = "raised"]

\* lines 97-117: one pass of the loop with the given answer
attempt_once(r, answer) ==
    LET r1 == [r EXCEPT !.sent = Append(@, answer)]
    IN  IF answer \notin Codes THEN ExceptAttempt(r1)
        ELSE IF answer # "0"
        THEN IF r.attempt < MaxRetries /\ answer \in RetryCodes
             THEN [r1 EXCEPT !.attempt = @ + 1]
             ELSE ExceptAttempt(r1)
        ELSE [r1 EXCEPT !.pc = "returned"]

\* the request is sent and the exchange answers, or does not
Attempt ==
    /\ request.pc = "sending"
    /\ \E answer \in Answers : request' = attempt_once(request, answer)
    /\ UNCHANGED <<engine_vars, risk_vars, sched_vars, strategy_vars>>

RequestInit ==
    /\ EngineAtRest
    /\ SchedAtRest
    /\ call = NoCall
    /\ gen = NoCall
    /\ request \in [pc : {"sending"}, method : Methods, attempt : {0}, sent : {<<>>}]

RequestNext == Attempt

SpecRequest == RequestInit /\ [][RequestNext]_vars

\* ---- generate_signal called on its own ----
\* An empty frame; frames shorter than ema_slow's window, one bar short of
\* trend_signal's least history, just long enough, and full
GenBars == {0, 30, 54, 55, CandleLimit}

NoBars ==
    [bars |-> 0, close |-> 0, atr |-> 0, low |-> 0, bb_mid |-> 0, ema_slow |-> 0,
     bb_width |-> 0, adx |-> 0, trigger |-> FALSE]

GenFrames ==
    {NoBars} \cup
    {d \in [bars : GenBars \ {0}, close : {100}, atr : {0, 10}, low : Lows,
            bb_mid : Mids, ema_slow : {NaN, 90, 110}, bb_width : {BbWidthMax, 61},
            adx : {AdxTrend - 1, AdxTrend}, trigger : BOOLEAN] :
        (d.ema_slow = NaN) <=> (d.bars < EmaSlow)}

\* StrategyConfig.mode, line 12
Modes == {"auto", "trend", "grid"}

GenInit ==
    /\ EngineAtRest
    /\ SchedAtRest
    /\ call = NoCall
    /\ request = NoCall
    /\ gen \in [pc : {"called"}, df : GenFrames, cfg : [mode : Modes]]

\* lines 114-122: the call returns
GenReturn ==
    /\ gen.pc = "called"
    /\ gen' = [pc |-> "returned", df |-> gen.df, cfg |-> gen.cfg,
               regime |-> detect_regime(gen.df, gen.cfg),
               sig |-> generate_signal(gen.df, gen.cfg)]
    /\ UNCHANGED <<engine_vars, risk_vars, sched_vars, client_vars>>

GenNext == GenReturn

SpecSignal == GenInit /\ [][GenNext]_vars

\* ======================= properties =======================
HasLeg(pos, oid) == \E i \in DOMAIN LegsOf(pos) : LegsOf(pos)[i].buyOrdId = oid

TheLeg(pos, oid) ==
    LegsOf(pos)[CHOOSE i \in DOMAIN LegsOf(pos) : LegsOf(pos)[i].buyOrdId = oid]

\* the place_algo_oco requests made for the leg of buy order oid
RequestsFor(log, oid) == {k \in DOMAIN log : log[k].buyOrdId = oid}

\* check_and_attach_oco_for_grid has run to its end
FillDetection == pc = "idle" /\ pc' = "dip"

\* C1: when fill detection runs, every leg of the symbol's Grid position that
\* is not ocoPlaced, whose buy order is not pending and is reported 'filled'
\* with a positive executed size gets exactly one OCO sell request, at the leg's
\* tp and sl and sized to the executed size; when the request succeeds the leg
\* is ocoPlaced and holds the algoId the exchange returned.
C1_FilledLegGetsOneOco ==
    [][FillDetection =>
        \A oid \in DOMAIN orders :
           LET pos == open_positions[sym']
           IN  (/\ HasLeg(pos, oid)
                /\ ~TheLeg(pos, oid).ocoPlaced
                /\ oid \notin PendingIds(orders, sym')
                /\ orders[oid].state = "filled"
                /\ orders[oid].accFillSz > 0)
               => LET leg == TheLeg(pos, oid)
                      after == TheLeg(open_positions'[sym'], oid)
                      ks == RequestsFor(oco_log', oid)
                  IN  /\ Cardinality(ks) = 1
                      /\ \A k \in ks :
                            /\ oco_log'[k].instId = sym'
                            /\ oco_log'[k].side = "sell"
                            /\ oco_log'[k].sz = orders[oid].accFillSz
                            /\ oco_log'[k].tp = leg.tp
                            /\ oco_log'[k].sl = leg.sl
                            /\ oco_log'[k].ok =>
                                  /\ after.ocoPlaced
                                  /\ after.ocoAlgoId \in (algos + 1)..algos']_vars

\* Fill detection has just protected a partly executed buy: the exit order is
\* smaller than the leg's ordered size
C1_Witness ==
    /\ pc = "dip"
    /\ \E k \in DOMAIN oco_log :
          /\ oco_log[k].ok
          /\ HasLeg(open_positions[sym], oco_log[k].buyOrdId)
          /\ LET leg == TheLeg(open_positions[sym], oco_log[k].buyOrdId)
             IN  /\ leg.ocoPlaced
                 /\ leg.ocoAlgoId >= 1
                 /\ oco_log[k].sz = leg.filledSz
                 /\ leg.filledSz < leg.size

\* C2: a leg that is ocoPlaced stays exactly as it is for as long as it is a
\* leg of the position (so ocoPlaced never returns to false and is set once),
\* and fill detection neither asks the exchange for its order nor requests an
\* OCO for it.
C2_AttachedLegIsLeftAlone ==
    [][\A s \in Symbols : \A oid \in DOMAIN orders :
          (HasLeg(open_positions[s], oid) /\ TheLeg(open_positions[s], oid).ocoPlaced)
          => /\ HasLeg(open_positions'[s], oid) =>
                   TheLeg(open_positions'[s], oid) = TheLeg(open_positions[s], oid)
             /\ (pc = "idle" /\ pc' # "idle" /\ sym' = s) =>
                   /\ oid \notin query_log'
                   /\ RequestsFor(oco_log', oid) = {}]_vars

\* Fill detection has run over a position with a leg that was ocoPlaced by an
\* earlier tick, and has handled another leg of it
C2_Witness ==
    /\ pc = "dip"
    /\ query_log # {}
    /\ \E i \in DOMAIN LegsOf(open_positions[sym]) :
          /\ LegsOf(open_positions[sym])[i].ocoPlaced
          /\ LegsOf(open_positions[sym])[i].buyOrdId \notin query_log

\* C3: a leg whose OCO request failed in this tick is, after every further
\* step of the engine in the tick and so when the next tick starts, still a
\* leg of the symbol's position, with ocoPlaced false.
C3_FailedOcoIsRetried ==
    [][\A oid \in DOMAIN orders :
          (/\ pc # "idle"
           /\ cmd' = cmd
           /\ HasLeg(open_positions[sym], oid)
           /\ \E k \in RequestsFor(oco_log, oid) : ~oco_log[k].ok)
          => /\ HasLeg(open_positions'[sym], oid)
             /\ ~TheLeg(open_positions'[sym], oid).ocoPlaced]_vars

\* C4: when step 5 removes a Grid position, none of its buy orders is pending
\* and every leg of it is ocoPlaced.
C4_CycleEndsOnlyWhenAllLegsChecked ==
    [][(/\ pc = "cycleSay"
        /\ pc' = "idle"
        /\ open_positions[sym].mode = "grid"
        /\ open_positions'[sym].mode = "none")
       => LET pos == open_positions[sym]
          IN  /\ CycleFinished(pos, PendingIds(orders, sym))
              /\ \A i \in DOMAIN pos.grid_orders : pos.grid_orders[i].ocoPlaced]_vars

\* C5: a leg that is ocoPlaced with no algoId belongs to a buy order with zero
\* executed size.
C5_AbandonedLegHasNoFill ==
    \A s \in Symbols : \A i \in DOMAIN LegsOf(open_positions[s]) :
       LET leg == LegsOf(open_positions[s])[i]
       IN  (leg.ocoPlaced /\ leg.ocoAlgoId = NoneVal)
           => orders[leg.buyOrdId].accFillSz = 0

\* C6: a long Trend position's trail, once set, is never unset and never
\* lowered by any step, for as long as the position (the same trade) is held.
C6_TrailNeverLowered ==
    [][\A s \in Symbols :
          LET p == open_positions[s]
              q == open_positions'[s]
          IN  (/\ p.mode = "trend" /\ q.mode = "trend"
               /\ p.side = "long"
               /\ p.trade_id = q.trade_id
               /\ p.trail # NoneVal)
              => (q.trail # NoneVal /\ q.trail >= p.trail)]_vars

\* Step 3 has run with a new ATR trail below the trail the position already
\* had, and the position kept its trail
C6_Witness ==
    /\ pc \in {"entry", "stopSay"}
    /\ open_positions[sym].mode = "trend"
    /\ open_positions[sym].side = "long"
    /\ df # NoDf
    /\ Truthy(atr_trailing_stop(df, 25, "long"))
    /\ open_positions[sym].trail > atr_trailing_stop(df, 25, "long")

\* max(trail, stop) with an unset trail read as no trail
EffectiveStop(pos) ==
    IF pos.trail = NoneVal THEN pos.stop ELSE Max(pos.trail, pos.stop)

\* C7: once check_symbol is past trend management (step 3) holding a long
\* Trend position whose effective stop the current price does not exceed, it is
\* in the stop-out: the position's Trade is closed at the current price and the
\* position is about to be removed.
C7_StopOutWhenPriceAtStop ==
    \A s \in Symbols :
       LET pos == open_positions[s]
       IN  (/\ sym = s
            /\ pos.mode = "trend"
            /\ pos.side = "long"
            /\ \/ pc \in {"entry", "stopSay"}
               \/ pc = "except" /\ logged = "TypeError"
            /\ last # NoneVal
            /\ last <= EffectiveStop(pos))
           => /\ pc = "stopSay"
              /\ tr_local # NoTrade
              /\ ~tr_local.open
              /\ tr_local.exit = last
              /\ trades[pos.trade_id] = tr_local

\* C8: a step that places an order or opens a Trade for a symbol starts with
\* no Position held for that symbol.
C8_NoEntryWhileHeld ==
    [][/\ \A o \in (DOMAIN orders') \ (DOMAIN orders) :
             IsFlat(open_positions[orders'[o].instId])
       /\ \A t \in (DOMAIN trades') \ (DOMAIN trades) :
             IsFlat(open_positions[trades'[t].symbol])]_vars

\* check_symbol is past steps 2 and 3 holding a Trend position, with auto-dip
\* on and the price at a dip level, and no order was ever placed
C8_Witness ==
    /\ pc = "entry"
    /\ open_positions[sym].mode = "trend"
    /\ config.auto_dip
    /\ \E p \in alerts[sym].dip : last <= p
    /\ orders = <<>>

\* C9: when step 4 finds the symbol flat and the signal is a trend entry whose
\* rounded size passes the minimum-size test (and the exchange answers), the
\* symbol has a long Trend position with unset trail and one new open Trade,
\* whose id is the position's trade_id; whatever state was loaded.
C9_TrendEntryOpensPosition ==
    [][(/\ pc = "entry"
        /\ pc' \in {"entrySay", "except"}
        /\ sig'.mode = "trend"
        /\ ~sig'.noop
        /\ logged' # "exchange")
       => LET meta == instr_meta'[sym]
              entry == round_to_tick(sig'.entry, meta.tickSize)
              stop == round_to_tick(sig'.stop, meta.tickSize)
              size == round_size(position_size_spot(equity, entry, stop, RiskPerTrade),
                                 meta.lotSz)
              pos == open_positions'[sym]
          IN  SizeOk(size, entry)
              => /\ pos.mode = "trend"
                 /\ pos.side = "long"
                 /\ pos.trail = NoneVal
                 /\ Len(trades') = Len(trades) + 1
                 /\ trades'[Len(trades')].open
                 /\ trades'[Len(trades')].symbol = sym
                 /\ trades'[Len(trades')].id = pos.trade_id]_vars

\* C10: every limit buy that step 4 places is, when the step ends, the buy
\* order of a leg of the symbol's Grid position, with ocoPlaced false.
C10_PlacedRungsAreLegs ==
    [][(pc = "entry" /\ pc' # "entry")
       => \A o \in (DOMAIN orders') \ (DOMAIN orders) :
             /\ HasLeg(open_positions'[sym], o)
             /\ ~TheLeg(open_positions'[sym], o).ocoPlaced]_vars

\* |entry - stop| of a returned call
CallDistance ==
    IF call.entry >= call.stop THEN call.entry - call.stop ELSE call.stop - call.entry

\* C11: for equity >= 0, a risk fraction in [0, 1] and entry # stop the size
\* returned is equity * riskFraction / |entry - stop| (as an equality of
\* rationals); for entry = stop it is 0, with nothing divided by zero.
C11_SizeIsRiskOverDistance ==
    (call.pc = "returned" /\ call.equity_usd >= 0
       /\ call.risk_per_trade.num >= 0
       /\ call.risk_per_trade.num <= call.risk_per_trade.den)
    => /\ call.size.den > 0
       /\ call.entry # call.stop =>
             call.size.num * (call.risk_per_trade.den * CallDistance)
                = (call.equity_usd * call.risk_per_trade.num) * call.size.den
       /\ call.entry = call.stop => call.size.num = 0

\* The scenario of the specification, with the stop above the entry as well:
\* equity 10000, risk 1%, two units between entry and stop give size 50
C11_Witness ==
    /\ call.pc = "returned"
    /\ call.equity_usd = 10000
    /\ call.risk_per_trade = [num |-> 1, den |-> 100]
    /\ call.entry = 98
    /\ call.stop = 100
    /\ call.size.num = 50 * call.size.den

\* C12: with a negative equity or a negative risk fraction (both negative
\* included) the size returned is 0, and no size returned is negative.
C12_NegativeInputsGiveNoExposure ==
    call.pc = "returned"
    => /\ call.size.num >= 0
       /\ (call.equity_usd < 0 \/ call.risk_per_trade.num < 0) => call.size.num = 0

\* the symbol has no open Trade
NoOpenTrade(trs, s) == \A i \in DOMAIN trs : trs[i].symbol = s => ~trs[i].open

\* C13: no step removes or reorders a Trade; a Trade that is closed stays
\* exactly as it is (exit, pnl, R, open = false); and a manual close begun
\* for a symbol with no open Trade changes no Trade.
C13_ClosedTradeIsFinal ==
    [][/\ Len(trades') >= Len(trades)
       /\ \A i \in DOMAIN trades :
             /\ trades'[i].id = trades[i].id
             /\ ~trades[i].open => trades'[i] = trades[i]
       /\ (cmd.pc = "idle" /\ cmd'.pc = "reply" /\ NoOpenTrade(trades, cmd'.sym))
             => trades' = trades]_vars

\* A manual close is under way for a symbol that holds a Grid position and
\* whose only Trade was closed before, at a price other than the one this
\* close would have used
C13_Witness ==
    /\ cmd.pc = "reply"
    /\ open_positions[cmd.sym].mode = "grid"
    /\ trades # <<>>
    /\ trades[1].symbol = cmd.sym
    /\ ~trades[1].open
    /\ trades[1].exit \notin {0} \cup ExitPrices

\* the keys of the two kinds of position
TrendFields == {"mode", "side", "entry", "stop", "size", "trail", "trade_id"}
GridFields == {"mode", "side", "grid", "grid_orders"}

ExclusiveVariant(pos) ==
    \/ pos = NoPos
    \/ pos.mode = "trend" /\ DOMAIN pos = TrendFields
    \/ pos.mode = "grid" /\ DOMAIN pos = GridFields

C15_LedgerIsPersisted ==
    pc = "idle" => load_state(disk).open_positions = open_positions

\* the trades a restart would load from the state file
StoredTrades ==
    IF "trades" \in DOMAIN load_state(disk) THEN load_state(disk).trades ELSE <<>>

\* C16: in the state file, a symbol has an open Trade of mode trend exactly
\* when it has a Trend position whose trade_id is that Trade's id.
C16_StoredTradeMatchesStoredPosition ==
    \A s \in Symbols :
       LET pos == load_state(disk).open_positions[s]
       IN  /\ \A i \in DOMAIN StoredTrades :
                 (/\ StoredTrades[i].symbol = s
                  /\ StoredTrades[i].mode = "trend"
                  /\ StoredTrades[i].open)
                 => (pos.mode = "trend" /\ pos.trade_id = StoredTrades[i].id)
           /\ pos.mode = "trend"
                 => \E i \in DOMAIN StoredTrades :
                       /\ StoredTrades[i].id = pos.trade_id
                       /\ StoredTrades[i].symbol = s
                       /\ StoredTrades[i].open

\* C17: as long as no state file exists, the state in memory is what
\* load_state made of the absent file: a structure with the four parts
\* open_positions, trades, alerts and config, each of them empty.
C17_NoFileLoadsAllFourParts ==
    ~disk.exists
    => /\ Memory = load_state(disk)
       /\ DOMAIN Memory = {"open_positions", "trades", "alerts", "config"}
       /\ Memory.trades = <<>>
       /\ \A s \in Symbols :
             /\ Memory.open_positions[s] = NoPos
             /\ Memory.alerts[s] = [dip |-> {}, breakout |-> {}]
       /\ Memory.config = [auto_dip |-> FALSE, auto_breakout |-> FALSE]

\* check_symbol is suspended in an await after which it reads or writes the
\* symbol's position again (lines 498, 585-595 and 625)
MidSymbolPcs == {"dipSay", "brkSay", "stopSay", "cycleSay"}

\* C19: no step of a /close handler for a symbol is taken while check_symbol
\* is between its first read and its last write of that symbol's position,
\* and no step of check_symbol is taken for a symbol while a /close for it is
\* between closing the trade and removing the position.
C19_CloseSerializesWithTick ==
    [][/\ cmd' # cmd =>
             LET s == IF cmd.pc = "idle" THEN cmd'.sym ELSE cmd.sym
             IN  ~(pc \in MidSymbolPcs /\ sym = s)
       /\ pc' # pc =>
             LET s == IF pc = "idle" THEN sym' ELSE sym
             IN  ~(cmd.pc = "reply" /\ cmd.sym = s)]_vars

\* the task has begun to run and its loop has not ended
InProgress(tk) == tk.pc = "await"

\* C18: at most one periodic task is in progress at any time, and no two of
\* them are inside check_symbol for the same symbol.
C18_TicksNeverOverlap ==
    \A t, u \in 1..MaxTasks :
       (InProgress(tasks[t]) /\ InProgress(tasks[u])) => t = u

\* C20: a periodic task that began to run while RUN_ENABLED held runs
\* check_symbol past line 569 for every symbol of the watchlist, whatever
\* /pause does meanwhile; one that began while paused does so for none.
C20_PauseGatesOnlyTheNextTick ==
    \A t \in 1..MaxTasks :
       /\ tasks[t].pc \in {"await", "done"} /\ tasks[t].start = "enabled"
             => tasks[t].skipped = {}
       /\ tasks[t].pc \in {"await", "done"} /\ tasks[t].start = "paused"
             => tasks[t].checked = {}

\* the dip levels at or above price px
QualifyingDips(s, px) == {p \in alerts[s].dip : px <= p}

\* C27: a step of check_symbol that places the dip limit buy starts with the
\* symbol flat and some configured dip level at or above the price; the buy
\* is at the lowest such level rounded down to the tick, its size is positive
\* and its notional at least the minimum order value; and the symbol then has
\* a Grid position of exactly one leg, not ocoPlaced, whose buyOrdId is the id
\* of the order placed.
C27_DipEntry ==
    [][(pc # "dipSay" /\ pc' = "dipSay")
       => LET pos == open_positions'[sym]
              level == round_to_tick(
                          CHOOSE p \in QualifyingDips(sym, last') :
                             \A q \in QualifyingDips(sym, last') : p <= q,
                          instr_meta'[sym].tickSize)
          IN  /\ QualifyingDips(sym, last') # {}
              /\ IsFlat(open_positions[sym])
              /\ Len(orders') = Len(orders) + 1
              /\ orders'[Len(orders')].instId = sym
              /\ orders'[Len(orders')].px = level
              /\ orders'[Len(orders')].sz > 0
              /\ orders'[Len(orders')].sz * level >= MinPositionUsd
              /\ pos.mode = "grid"
              /\ Len(pos.grid_orders) = 1
              /\ ~pos.grid_orders[1].ocoPlaced
              /\ pos.grid_orders[1].buyOrdId = Len(orders')
              /\ pos.grid_orders[1].buy = level
              /\ pos.grid_orders[1].size = orders'[Len(orders')].sz]_vars

\* The dip buy was just placed with two dip levels at or above the price and
\* a tick that rounds the lower one down
C27_Witness ==
    /\ pc = "dipSay"
    /\ Cardinality(QualifyingDips(sym, last)) = 2
    /\ open_positions[sym].mode = "grid"
    /\ \A p \in QualifyingDips(sym, last) : open_positions[sym].grid_orders[1].buy < p

\* C30: a run of check_and_attach_oco_for_grid for a symbol, whether it ends
\* or raises, leaves every leg whose buy order is still pending and every leg
\* that is ocoPlaced exactly as it was, asks the exchange for neither's order
\* and requests no OCO for it; it changes no leg's buy, tp, sl or size and
\* neither adds nor drops a leg; and for a symbol with no position or with a
\* Trend position it changes nothing and makes no request.
C30_FillDetectionFrame ==
    [][(pc = "idle" /\ pc' # "idle")
       => LET pos == open_positions[sym']
              after == open_positions'[sym']
          IN  /\ DOMAIN LegsOf(after) = DOMAIN LegsOf(pos)
              /\ \A i \in DOMAIN LegsOf(pos) :
                    LET leg == LegsOf(pos)[i]
                    IN  /\ LegsOf(after)[i].buy = leg.buy
                        /\ LegsOf(after)[i].tp = leg.tp
                        /\ LegsOf(after)[i].sl = leg.sl
                        /\ LegsOf(after)[i].size = leg.size
                        /\ (leg.ocoPlaced \/ leg.buyOrdId \in PendingIds(orders, sym'))
                           => /\ LegsOf(after)[i] = leg
                              /\ leg.buyOrdId \notin query_log'
                              /\ RequestsFor(oco_log', leg.buyOrdId) = {}
              /\ (IsFlat(pos) \/ pos.mode = "trend")
                 => /\ open_positions' = open_positions
                    /\ query_log' = {}
                    /\ oco_log' = <<>>
                    /\ algos' = algos
                    /\ orders' = orders
                    /\ disk' = disk]_vars

\* Fill detection has run over a Grid position with one leg still pending,
\* which it passed over, and another leg whose order it asked for
C30_Witness ==
    /\ pc = "dip"
    /\ query_log # {}
    /\ \E i \in DOMAIN LegsOf(open_positions[sym]) :
          LET leg == LegsOf(open_positions[sym])[i]
          IN  /\ ~leg.ocoPlaced
              /\ leg.buyOrdId \in PendingIds(orders, sym)
              /\ leg.buyOrdId \notin query_log

\* C28: a step in which the breakout path opens a Trend position has a
\* configured breakout level at or below the price and a last indicator row
\* with adx at or above the trend threshold and the fast average above the
\* slow one.
C28_BreakoutNeedsMomentum ==
    [][(pc # "brkSay" /\ pc' = "brkSay")
       => /\ open_positions'[sym'].mode = "trend"
          /\ \E p \in alerts[sym'].breakout : p <= last'
          /\ last_row'.adx >= AdxTrend
          /\ last_row'.ema_fast > last_row'.ema_slow]_vars

\* The breakout path has just opened a Trend position at the price
C28_Witness ==
    /\ pc = "brkSay"
    /\ open_positions[sym].mode = "trend"
    /\ open_positions[sym].entry = round_to_tick(last, instr_meta[sym].tickSize)
    /\ last_row.adx >= AdxTrend

\* C29: _fetch_instruments is called at most once for a symbol; and once the
\* symbol has a cache entry no step changes the entry or fetches again, a
\* step in which get_instr_meta is called for it included.
C29_MetaIsFetchedOnce ==
    [][\A s \in Symbols :
          /\ instr_fetches'[s] <= 1
          /\ instr_meta[s] # NoMeta
             => /\ instr_meta'[s] = instr_meta[s]
                /\ instr_fetches'[s] = instr_fetches[s]]_vars

\* get_instr_meta has been called in this run of check_symbol for a symbol
\* whose entry, other than the default, was cached before, and the dip buy
\* was placed with it
C29_Witness ==
    /\ pc = "dipSay"
    /\ meta_hits >= 1
    /\ instr_fetches[sym] = 1
    /\ instr_meta[sym].tickSize = 5

\* the symbols of the watchlist
Watched == {WATCHLIST[j] : j \in 1..Len(WATCHLIST)}

\* C21: no exception raised in check_symbol leaves periodic; each is logged,
\* and a task that has ended has had check_symbol called for every symbol of
\* the watchlist, those after a symbol whose check_symbol raised included.
C21_FailureOfOneSymbolIsIsolated ==
    \A t \in 1..MaxTasks :
       tasks[t].pc \in {"await", "done", "raised"}
       => /\ tasks[t].pc # "raised"
          /\ tasks[t].raised \subseteq tasks[t].logged
          /\ tasks[t].pc = "done"
                => tasks[t].checked \cup tasks[t].skipped = Watched

\* A task has ended whose check_symbol raised an exchange or data error for
\* the first symbol and went on to process the last one
C21_Witness ==
    \E t \in 1..MaxTasks :
       /\ tasks[t].pc = "done"
       /\ WATCHLIST[1] \in tasks[t].raised \ tasks[t].unsaved
       /\ WATCHLIST[Len(WATCHLIST)] \in tasks[t].checked \ tasks[t].raised

\* C23: once save_state has raised in check_symbol of a symbol, the task
\* processes no later symbol of the watchlist.
C23_FailedSaveIsFatal ==
    \A t \in 1..MaxTasks : \A j, k \in 1..Len(WATCHLIST) :
       (tasks[t].pc # "none" /\ j < k /\ WATCHLIST[j] \in tasks[t].unsaved)
       => WATCHLIST[k] \notin tasks[t].checked

\* the codes the exchange documents as rate limit or temporary: 50011, 50013
\* and 50026
TransientCodes == {"50011", "50013", "50026"}

\* C22: every attempt of a request that was followed by another attempt was
\* answered with a rate-limit or transient code; so an attempt answered with
\* insufficient balance, a size off the lot or a rejection is the last one.
C22_OnlyTransientIsRetried ==
    request.pc # "none"
    => \A k \in 1..(Len(request.sent) - 1) : request.sent[k] \in TransientCodes

\* C24: for every frame, the regime is the configured mode when that is
\* trend or grid; otherwise trend when adx is at or above the threshold and
\* the close above ema_slow, else grid when bb_width is at or below its
\* threshold and adx below its own, else trend.
C24_RegimePrecedence ==
    gen.pc = "returned"
    => LET d == gen.df
       IN  gen.regime =
              IF gen.cfg.mode \in {"trend", "grid"} THEN gen.cfg.mode
              ELSE IF d.bars > 0 /\ FGe(d.adx, AdxTrend) /\ FGt(d.close, d.ema_slow)
              THEN "trend"
              ELSE IF d.bars > 0 /\ FLe(d.bb_width, BbWidthMax) /\ FLt(d.adx, AdxTrend)
              THEN "grid"
              ELSE "trend"

\* C25: generate_signal called on a frame with fewer bars than the longest
\* window plus the margin returns a no-op, whatever the mode and the regime.
C25_ShortHistoryGivesNoOp ==
    (gen.pc = "returned" /\ gen.df.bars < MinHistory) => gen.sig.noop

C32_RetriesAreBounded ==
    request.pc # "none"
    => /\ Len(request.sent) <= MaxRetries + 1
       /\ Len(request.sent) = MaxRetries + 1 => request.pc \in {"returned", "raised"}
       /\ request.pc = "returned"
             => /\ request.sent # <<>>
                /\ request.sent[Len(request.sent)] = "0"
       /\ request.pc = "raised"
             => /\ request.sent # <<>>
                /\ request.sent[Len(request.sent)] # "0"
       /\ \A k \in 1..(Len(request.sent) - 1) : request.sent[k] # "0"

\* The call has raised after its last allowed attempt, the exchange having
\* answered with a transient code, no answer at all and a rejection
C32_Witness ==
    /\ request.pc = "raised"
    /\ request.sent = <<"50011", "timeout", "1">>

\* C34: every buy order the engine has placed that still rests on the
\* exchange is the buy order of a leg of the Grid position the ledger holds
\* for the order's symbol.
C34_NoOrphanEntryOrders ==
    \A o \in DOMAIN orders :
       orders[o].state = "live"
       => /\ open_positions[orders[o].instId].mode = "grid"
          /\ HasLeg(open_positions[orders[o].instId], o)

\* C36: no step of the engine changes the alert table; in particular the
\* step that places the dip buy leaves the level that triggered it in the
\* table.
C36_TickLeavesAlertsAlone ==
    [][/\ alerts' = alerts
       /\ (pc # "dipSay" /\ pc' = "dipSay")
          => \E p \in alerts'[sym'].dip :
                /\ last' <= p
                /\ open_positions'[sym'].grid_orders[1].buy =
                      round_to_tick(p, instr_meta'[sym'].tickSize)]_vars

\* A dip level has triggered a buy for the second order of the symbol, the
\* first being done and forgotten, and is still in the table
C36_Witness ==
    /\ pc = "dipSay"
    /\ Len(orders) = 2
    /\ orders[1].state = "gone"
    /\ open_positions[sym].grid_orders[1].buyOrdId = 2
    /\ \E p \in alerts[sym].dip :
          open_positions[sym].grid_orders[1].buy =
             round_to_tick(p, instr_meta[sym].tickSize)

\* C33: the step that removes a Grid position at the end of its cycle is
\* never a step of the check_symbol run whose dip path opened the position.
C33_DipEntryOutlivesItsTick ==
    [][(/\ pc = "cycleSay"
        /\ pc' = "idle"
        /\ open_positions[sym].mode = "grid"
        /\ open_positions'[sym].mode = "none")
       => ~dip_entry]_vars

\* how many times check_symbol was called with s
Calls(tk, s) == Cardinality({k \in 1..Len(tk.calls) : tk.calls[k] = s})

\* C35: a task that has ended has called check_symbol exactly once for each
\* symbol that was on the watchlist when it began and that /rm did not take
\* off while it ran.
C35_EachSymbolOncePerTick ==
    \A t \in 1..MaxTasks :
       tasks[t].pc = "done"
       => \A j \in 1..Len(tasks[t].first) :
             tasks[t].first[j] \notin tasks[t].gone => Calls(tasks[t], tasks[t].first[j]) = 1

\* a buy order of a leg of pos rests on the exchange
HasPendingBuy(pos) ==
    /\ pos.mode = "grid"
    /\ \E o \in DOMAIN orders : orders[o].state = "live" /\ HasLeg(pos, o)

\* C31: no step of check_symbol removes a Grid position one of whose buy
\* orders is in the exchange's pending set; only the /close handler does.
C31_PendingGridIsKept ==
    [][\A s \in Symbols :
          (HasPendingBuy(open_positions[s]) /\ open_positions'[s] # open_positions[s])
          => \/ cmd.pc = "reply" /\ cmd'.pc = "idle" /\ cmd.sym = s
             \/ /\ open_positions'[s].mode = "grid"
                /\ \A o \in DOMAIN orders :
                      HasLeg(open_positions[s], o) => HasLeg(open_positions'[s], o)]_vars

====
